---- MODULE Spec2Model ----
(***************************************************************************)
(* Model of main.py: a stateless FastAPI backend with six handlers.       *)
(*                                                                         *)
(* Python floats are modelled as fixed-point numbers with a resolution of *)
(* 1e-6 (the epsilon of predict_risk is exactly one unit), extended with  *)
(* the IEEE special values inf, -inf and nan.  A float is a record        *)
(* [k |-> "num", v |-> n] standing for n * 1e-6, or [k |-> "inf"],        *)
(* [k |-> "ninf"], [k |-> "nan"] (v = 0).  Arithmetic rounds to the       *)
(* nearest unit and overflows to inf beyond MaxFinite, as IEEE arithmetic *)
(* overflows beyond the largest double.                                   *)
(***************************************************************************)
EXTENDS Integers, Sequences, FiniteSets, TLC

\* req:    the request being served
\* resp:   the response sent for it
\* locals: the local variables of predict_risk's run for it, if it ran
\* log:    history: for each tracked RiskFeatures, the number of predict calls
\*         served for it and the set of responses they got
VARIABLES req, resp, locals, log

vars == <<req, resp, locals, log>>

-----------------------------------------------------------------------------
(* Fixed-point floats *)

\* Units per 1.0: the resolution is the epsilon 1e-6 of predict_risk.
Unit == 1000000

\* Largest finite magnitude of the fixed-point floats (1000.0); beyond it
\* arithmetic overflows to inf.
MaxFinite == 1000000000

Num(n) == [k |-> "num", v |-> n]
INF == [k |-> "inf", v |-> 0]
NINF == [k |-> "ninf", v |-> 0]
NAN == [k |-> "nan", v |-> 0]

IsNum(x) == x.k = "num"

Abs(n) == IF n < 0 THEN -n ELSE n
Sign(n) == IF n < 0 THEN -1 ELSE 1

\* Overflow to +-inf beyond the largest finite magnitude.
Sat(n) == IF n > MaxFinite THEN INF ELSE IF n < -MaxFinite THEN NINF ELSE Num(n)

\* int -> float conversion of a Python int operand.
IntToFloat(i) == Sat(i * Unit)

FNeg(x) ==
    CASE x.k = "num" -> Num(-x.v)
      [] x.k = "inf" -> NINF
      [] x.k = "ninf" -> INF
      [] OTHER -> NAN

FAdd(a, b) ==
    IF a.k = "nan" \/ b.k = "nan" THEN NAN
    ELSE IF a.k = "inf" THEN (IF b.k = "ninf" THEN NAN ELSE INF)
    ELSE IF a.k = "ninf" THEN (IF b.k = "inf" THEN NAN ELSE NINF)
    ELSE IF b.k # "num" THEN b
    ELSE Sat(a.v + b.v)

\* |a| * |b| / Unit rounded to nearest, without leaving 32-bit range:
\* a = ah*1000 + al, b = bh*1000 + bl.
MulMag(a, b) ==
    LET ah == a \div 1000
        al == a % 1000
        bh == b \div 1000
        bl == b % 1000
        hi == ah * bh
        mid == ah * bl + al * bh
        lo == al * bl + (Unit \div 2)
    IN  hi + ((mid + (lo \div 1000)) \div 1000)

\* TRUE when |a| * |b| / Unit exceeds the largest finite magnitude.
MulOverflows(a, b) ==
    LET ah == a \div 1000
        bh == b \div 1000
    IN  ah > 0 /\ bh > (MaxFinite + 1000) \div ah

FMul(a, b) ==
    IF a.k = "nan" \/ b.k = "nan" THEN NAN
    ELSE IF a.k # "num" \/ b.k # "num" THEN
        LET sa == IF a.k = "num" THEN (IF a.v = 0 THEN 0 ELSE Sign(a.v))
                  ELSE IF a.k = "inf" THEN 1 ELSE -1
            sb == IF b.k = "num" THEN (IF b.v = 0 THEN 0 ELSE Sign(b.v))
                  ELSE IF b.k = "inf" THEN 1 ELSE -1
        IN  IF sa * sb = 0 THEN NAN ELSE IF sa * sb > 0 THEN INF ELSE NINF
    ELSE IF MulOverflows(Abs(a.v), Abs(b.v))
        THEN (IF Sign(a.v) * Sign(b.v) > 0 THEN INF ELSE NINF)
    ELSE Sat(Sign(a.v) * Sign(b.v) * MulMag(Abs(a.v), Abs(b.v)))

\* The first `digits` decimal digits of r / d, for 0 <= r < d, and the
\* remainder left after them, as <<digits, remainder>>.
RECURSIVE FracDigits(_, _, _)
FracDigits(r, d, digits) ==
    IF digits = 0 THEN <<0, r>>
    ELSE LET rest == FracDigits((r * 10) % d, d, digits - 1)
             p == IF digits = 1 THEN 1 ELSE IF digits = 2 THEN 10
                  ELSE IF digits = 3 THEN 100 ELSE IF digits = 4 THEN 1000
                  ELSE IF digits = 5 THEN 10000 ELSE 100000
         IN  <<((r * 10) \div d) * p + rest[1], rest[2]>>

\* a / b for magnitudes a >= 0, b > 0, rounded to the nearest unit; -1
\* stands for a quotient beyond the largest finite magnitude.
DivMag(a, b) ==
    LET q == a \div b
        f == FracDigits(a % b, b, 6)
        up == IF 2 * f[2] >= b THEN 1 ELSE 0
    IN  IF q > MaxFinite \div Unit THEN -1
        ELSE q * Unit + f[1] + up

\* Float division; the divisors of the program are never zero.
FDiv(a, b) ==
    IF a.k = "nan" \/ b.k = "nan" THEN NAN
    ELSE IF a.k # "num" THEN
        (IF b.k # "num" THEN NAN
         ELSE IF (a.k = "inf") = (b.v >= 0) THEN INF ELSE NINF)
    ELSE IF b.k # "num" THEN Num(0)
    ELSE LET m == DivMag(Abs(a.v), Abs(b.v))
             pos == Sign(a.v) * Sign(b.v) > 0
         IN  IF m < 0 THEN (IF pos THEN INF ELSE NINF)
             ELSE Sat(IF pos THEN m ELSE -m)

\* a < b; every comparison with nan is false.
FLt(a, b) ==
    IF a.k = "nan" \/ b.k = "nan" THEN FALSE
    ELSE IF a.k = "ninf" THEN b.k # "ninf"
    ELSE IF a.k = "inf" THEN FALSE
    ELSE IF b.k = "inf" THEN TRUE
    ELSE IF b.k = "ninf" THEN FALSE
    ELSE a.v < b.v

FGe(a, b) == a.k # "nan" /\ b.k # "nan" /\ ~FLt(a, b)
FLe(a, b) == FGe(b, a)
FGt(a, b) == FLt(b, a)

\* Python's min(a, b): the first argument unless the second is smaller.
FMin(a, b) == IF FLt(b, a) THEN b ELSE a

\* Mutant of Round4: round(x, 1), the wrong number of digits.
Round1(x) ==
    IF x.k # "num" THEN x
    ELSE LET m == Abs(x.v)
             q == m \div 100000
             r == m % 100000
             n == IF r > 50000 \/ (r = 50000 /\ q % 2 = 1) THEN q + 1 ELSE q
         IN  Num(Sign(x.v) * n * 100000)

\* round(x, 4): to the nearest multiple of 1e-4, ties to even; inf and nan
\* are returned unchanged.
Round4(x) ==
    IF x.k # "num" THEN x
    ELSE LET m == Abs(x.v)
             q == m \div 100
             r == m % 100
             n == IF r > 50 \/ (r = 50 /\ q % 2 = 1) THEN q + 1 ELSE q
         IN  Num(Sign(x.v) * n * 100)

-----------------------------------------------------------------------------
(* The power operator of line 208 *)

\* The literal 2.718281828 at the resolution of the model.
EulerLiteral == 2718282

\* ln(2.718281828) = 0.99999999983 at the resolution of the model.
LnEulerLiteral == 1000000

\* Raised by a float power whose result exceeds the largest finite float.
OverflowError == [k |-> "err", v |-> 0]

\* exp(t) for 0 <= t < 1 by its Taylor series: term is t^(i-1)/(i-1)!.
RECURSIVE ExpSeries(_, _, _)
ExpSeries(t, term, i) ==
    IF term = 0 THEN 0
    ELSE term + ExpSeries(t, (MulMag(term, t) + (i \div 2)) \div i, i + 1)

\* base^n for an integer n <= 0, by repeated division; underflows to 0.
RECURSIVE PowNegInt(_, _, _)
PowNegInt(base, n, acc) ==
    IF n = 0 \/ acc = 0 THEN acc
    ELSE PowNegInt(base, n + 1, DivMag(acc, base))

\* base^n for an integer n >= 0, by repeated multiplication; -1 on overflow.
RECURSIVE PowPosInt(_, _, _)
PowPosInt(base, n, acc) ==
    IF n = 0 THEN acc
    ELSE IF MulOverflows(acc, base) \/ MulMag(acc, base) > MaxFinite THEN -1
    ELSE PowPosInt(base, n - 1, MulMag(acc, base))

\* base ** y for the literal base > 1: base^floor(y) * exp(frac(y) * ln base).
FPow(base, y) ==
    CASE y.k = "nan" -> NAN
      [] y.k = "inf" -> INF
      [] y.k = "ninf" -> Num(0)
      [] OTHER ->
        LET n == y.v \div Unit
            f == y.v % Unit
            frac == ExpSeries(MulMag(f, LnEulerLiteral), Unit, 1)
            int == IF n <= 0 THEN PowNegInt(base, n, Unit)
                   ELSE PowPosInt(base, n, Unit)
        IN  IF int < 0 \/ MulOverflows(int, frac) \/ MulMag(int, frac) > MaxFinite
            THEN OverflowError
            ELSE Num(MulMag(int, frac))

-----------------------------------------------------------------------------
(* RiskFeatures and its validation (lines 184-189) *)

MinAge == 18
MaxAge == 100

\* Mutant of Valid: the le=100 constraint on age is missing.
ValidNoUpperAge(f) ==
    /\ FGe(f.income, Num(0))
    /\ FGe(f.debt, Num(0))
    /\ f.num_credit_lines >= 0
    /\ f.missed_payments >= 0
    /\ f.age >= MinAge

\* The Field constraints: ge=0 on the four amounts, ge=18 and le=100 on age.
\* A nan amount fails ge=0, inf passes it.
Valid(f) ==
    /\ FGe(f.income, Num(0))
    /\ FGe(f.debt, Num(0))
    /\ f.num_credit_lines >= 0
    /\ f.missed_payments >= 0
    /\ f.age >= MinAge
    /\ f.age <= MaxAge

\* The fields the validation error enumerates.
Violations(f) ==
    {n \in {"income", "debt", "num_credit_lines", "missed_payments", "age"} :
        \/ n = "income" /\ ~FGe(f.income, Num(0))
        \/ n = "debt" /\ ~FGe(f.debt, Num(0))
        \/ n = "num_credit_lines" /\ f.num_credit_lines < 0
        \/ n = "missed_payments" /\ f.missed_payments < 0
        \/ n = "age" /\ (f.age < MinAge \/ f.age > MaxAge)}

-----------------------------------------------------------------------------
(* predict_risk (lines 193-227) *)

Epsilon == 1
DtiSentinel == 10000000
PaymentRate == 250000
PaymentCap == 3000000
CreditRate == 50000
CreditCap == 1500000
AgeRate == -10000
AgePivot == 30
DtiWeight == 1500000
LowThreshold == 330000
HighThreshold == 660000

\* Mutant of Dti: the income > 0 branch is missing, the epsilon alone guards
\* the division.
DtiNoSentinel(f) == FDiv(f.debt, FAdd(f.income, Num(Epsilon)))

\* line 199
Dti(f) ==
    IF FGt(f.income, Num(0))
    THEN FDiv(f.debt, FAdd(f.income, Num(Epsilon)))
    ELSE Num(DtiSentinel)

\* Mutant of PaymentPenalty: the cap is missing.
PaymentPenaltyUncapped(f) == FMul(IntToFloat(f.missed_payments), Num(PaymentRate))

\* line 200
PaymentPenalty(f) ==
    FMin(FMul(IntToFloat(f.missed_payments), Num(PaymentRate)), Num(PaymentCap))

\* line 201
CreditUtilPenalty(f) ==
    FMin(FMul(IntToFloat(f.num_credit_lines), Num(CreditRate)), Num(CreditCap))

\* line 202
AgeBonus(f) == FMul(Num(AgeRate), IntToFloat(f.age - AgePivot))

\* line 205
LinearScore(dti, payment_penalty, credit_util_penalty, age_bonus) ==
    FAdd(FAdd(FAdd(FMul(Num(DtiWeight), dti), payment_penalty),
              credit_util_penalty), age_bonus)

\* line 208: 1 / (1 + 2.718281828 ** (-linear_score)); the power may raise.
Sigmoid(linear_score) ==
    LET p == FPow(EulerLiteral, FNeg(linear_score))
    IN  IF p = OverflowError THEN OverflowError
        ELSE FDiv(Num(Unit), FAdd(Num(Unit), p))

\* Mutant of Categorize: <= in place of < at both thresholds.
CategorizeInclusive(risk_prob) ==
    IF FLe(risk_prob, Num(LowThreshold)) THEN "low"
    ELSE IF FLe(risk_prob, Num(HighThreshold)) THEN "medium"
    ELSE "high"

\* lines 211-216
Categorize(risk_prob) ==
    IF FLt(risk_prob, Num(LowThreshold)) THEN "low"
    ELSE IF FLt(risk_prob, Num(HighThreshold)) THEN "medium"
    ELSE "high"

\* A local the run never assigned.
Unset == [k |-> "unset", v |-> 0]

\* lines 200-227: the function from its second statement on, given dti.
ScoreFrom(f, dti) ==
    LET payment_penalty == PaymentPenalty(f)
        credit_util_penalty == CreditUtilPenalty(f)
        age_bonus == AgeBonus(f)
        linear_score ==
            LinearScore(dti, payment_penalty, credit_util_penalty, age_bonus)
        risk_prob == Sigmoid(linear_score)
        category == Categorize(risk_prob)
        upto205 == [ran |-> TRUE, dti |-> dti,
                    payment_penalty |-> payment_penalty,
                    credit_util_penalty |-> credit_util_penalty,
                    age_bonus |-> age_bonus, linear_score |-> linear_score]
    IN  IF risk_prob = OverflowError
        THEN [raised |-> TRUE,
              locals |-> upto205 @@ [risk_prob |-> Unset, category |-> "unset"],
              body |-> [error |-> "OverflowError"]]
        ELSE [raised |-> FALSE,
              locals |-> upto205 @@ [risk_prob |-> risk_prob, category |-> category],
              body |-> [risk_probability |-> Round4(risk_prob),
                        category |-> category,
                        features |-> [dti |-> Round4(dti),
                                      age |-> f.age,
                                      num_credit_lines |-> f.num_credit_lines,
                                      missed_payments |-> f.missed_payments]]]

\* Mutant of PredictRisk: dti comes from a module-level cache keyed by income
\* alone, so an earlier call with the same income and another debt decides it.
PredictRiskCached(f) ==
    LET hits == {g \in DOMAIN log :
                    g.income = f.income /\ g # f /\ log[g].calls > 0}
    IN  ScoreFrom(f, IF hits = {} THEN Dti(f) ELSE Dti(CHOOSE g \in hits : TRUE))

\* The whole function: its locals, and either the returned dict or the
\* exception it raises.  It reads nothing but its argument.
PredictRisk(f) == ScoreFrom(f, Dti(f))

NoLocals == [ran |-> FALSE]

-----------------------------------------------------------------------------
(* echo (lines 167-181) *)

\* A payload is a Python dict: a sequence of <<key, value>> pairs in
\* insertion order, with distinct keys.
DictKeys(d) == [i \in 1..Len(d) |-> d[i][1]]

\* Mutant of Echo: the keys are listed in reverse order.
EchoReversedKeys(payload) ==
    [received |-> payload,
     meta |-> [length |-> Len(payload),
               keys |-> [i \in 1..Len(payload) |->
                            DictKeys(payload)[Len(payload) + 1 - i]],
               note |-> "Echo service is useful for testing JSON integrations."]]

\* lines 174-181
Echo(payload) ==
    [received |-> payload,
     meta |-> [length |-> Len(payload),
               keys |-> DictKeys(payload),
               note |-> "Echo service is useful for testing JSON integrations."]]

-----------------------------------------------------------------------------
(* The static handlers (lines 21-28, 79-161) *)

ReadRootBody == [message |-> "Hello from FastAPI Backend!"]
HelloBody == [message |-> "Hello from the backend API!"]

\* The profile document, abridged to its scalar fields and list sizes.
ProfileDocument ==
    [name |-> "Gustavo Dutra", title |-> "Software Engineer",
     languages |-> <<"English", "French", "Spanish", "Portuguese">>,
     experience |-> 5, education |-> 2]

-----------------------------------------------------------------------------
(* test_database (lines 31-73) *)

ShowCollections == 10
ErrorCut == 50

Take(seq, n) == SubSeq(seq, 1, IF Len(seq) < n THEN Len(seq) ELSE n)

NoExc == [type |-> "none", msg |-> <<>>]
Exc(type, msg) == [type |-> type, msg |-> msg]

\* isinstance(e, cls) over the exception classes that occur: ImportError is
\* an Exception; "Exception" stands for any other subclass of Exception.
IsInstance(e, cls) ==
    \/ e.type = cls
    \/ cls = "Exception" /\ e.type \in {"ImportError", "Exception"}

\* The except clause of line 58.
InnerCatches(e) == IsInstance(e, "Exception")

\* Mutant of OuterHandler: the except Exception clause is missing.
OuterHandlerImportOnly(e) ==
    IF IsInstance(e, "ImportError") THEN "ImportError" ELSE "none"

\* The except clauses of lines 63 and 65, in order: the handler that takes
\* the exception, or "none".
OuterHandler(e) ==
    IF IsInstance(e, "ImportError") THEN "ImportError"
    ELSE IF IsInstance(e, "Exception") THEN "Exception"
    ELSE "none"

Text(label, detail) == [label |-> label, detail |-> detail]

\* lines 34-41
InitialResponse ==
    [backend |-> "Running",
     database |-> Text("Not Available", <<>>),
     database_url |-> "None",
     database_name |-> "None",
     connection_status |-> "Not Connected",
     collections |-> <<>>]

\* lines 54-59: the inner try and its handler.
InnerTry(env, r) ==
    IF env.list = "raises"
    THEN LET e == Exc("Exception", env.msg)
         IN  IF InnerCatches(e)
             THEN [response |-> [r EXCEPT !.database =
                                   Text("Connected but Error", Take(e.msg, ErrorCut))],
                   exc |-> NoExc]
             ELSE [response |-> r, exc |-> e]
    ELSE [response |-> [r EXCEPT !.collections = Take(env.collections, ShowCollections),
                                  !.database = Text("Connected & Working", <<>>)],
          exc |-> NoExc]

\* lines 45-61: the body of the outer try, up to the exception that leaves it.
OuterBody(env, r) ==
    CASE env.import = "ImportError" ->
            [response |-> r, exc |-> Exc("ImportError", env.msg)]
      [] env.import = "Exception" ->
            [response |-> r, exc |-> Exc("Exception", env.msg)]
      [] env.import = "None" ->
            [response |-> [r EXCEPT !.database =
                             Text("Available but not initialized", <<>>)],
             exc |-> NoExc]
      [] OTHER ->
            LET r1 == [r EXCEPT !.database = Text("Available", <<>>),
                                !.database_url = "Configured"]
            IN  IF env.has_name = "raises"
                THEN [response |-> r1, exc |-> Exc("Exception", env.msg)]
                ELSE InnerTry(env,
                        [r1 EXCEPT !.database_name =
                                      IF env.has_name = "yes" THEN "db.name"
                                      ELSE "Connected",
                                   !.connection_status = "Connected"])

\* lines 43-66: the outer try with its two handlers.
OuterTry(env, r) ==
    LET b == OuterBody(env, r)
        h == OuterHandler(b.exc)
    IN  IF b.exc = NoExc THEN b
        ELSE IF h = "ImportError"
        THEN [response |-> [b.response EXCEPT !.database =
                              Text("Database module not found", <<>>)],
              exc |-> NoExc]
        ELSE IF h = "Exception"
        THEN [response |-> [b.response EXCEPT !.database =
                              Text("Error", Take(b.exc.msg, ErrorCut))],
              exc |-> NoExc]
        ELSE b

\* The whole function: the returned dict, or the exception that leaves it.
TestDatabase(env) ==
    LET t == OuterTry(env, InitialResponse)
    IN  IF t.exc # NoExc THEN [raised |-> TRUE, exc |-> t.exc]
        ELSE [raised |-> FALSE,
              response |-> [t.response EXCEPT
                  !.database_url = IF env.url_set THEN "Set" ELSE "Not Set",
                  !.database_name = IF env.name_set THEN "Set" ELSE "Not Set"]]

-----------------------------------------------------------------------------
(* Requests *)

\* The request bodies POSTed to /api/ml/predict, valid and invalid.
Incomes == {Num(-1), NAN, Num(0), Num(1), Num(100000000), INF}
Debts == {Num(-1), Num(0), Num(44213300), INF}
CreditLines == {-1, 0, 3, 30, 1000}
MissedPayments == {-1, 0, 2, 12, 100}
Ages == {MinAge - 1, MinAge, AgePivot, MaxAge, MaxAge + 1}

Features(incomes, debts, lines, missed, ages) ==
    [income : incomes, debt : debts, num_credit_lines : lines,
     missed_payments : missed, age : ages]

RawFeatures == Features(Incomes, Debts, CreditLines, MissedPayments, Ages)

\* The valid RiskFeatures whose results the history variable log records.
TrackedFeatures ==
    Features({Num(100000000), INF}, {Num(44213300), INF}, {3}, {2}, {MaxAge})

\* The history counts at most MaxCalls calls for each tracked RiskFeatures.
MaxCalls == 2

\* The payloads POSTed to /api/tools/echo: dicts of at most MaxKeys keys.
MaxKeys == 2
EchoKeys == {"a", "b", "c"}
EchoValues == {1, 2}

Payloads ==
    UNION {{d \in [1..n -> EchoKeys \X EchoValues] :
              \A i, j \in 1..n : i # j => d[i][1] # d[j][1]} : n \in 0..MaxKeys}

\* What test_database finds: the outcome of the import, of hasattr(db, 'name'),
\* of list_collection_names(), and the two environment variables.
MaxMsgLen == 51
MaxCollections == 11

Iota(n) == [i \in 1..n |-> i]
Messages == {Iota(n) : n \in {0, ErrorCut, MaxMsgLen}}
CollectionLists == {Iota(n) : n \in {0, ShowCollections, MaxCollections}}

Env(import, has_name, list, msg, collections) ==
    [import |-> import, has_name |-> has_name, list |-> list, msg |-> msg,
     collections |-> collections]

EnvOutcomes ==
    {Env(i, "no", "ok", m, <<>>) : i \in {"ImportError", "Exception"}, m \in Messages}
    \cup {Env("None", "no", "ok", <<>>, <<>>)}
    \cup {Env("db", "raises", "ok", m, <<>>) : m \in Messages}
    \cup {Env("db", h, "raises", m, <<>>) : h \in {"yes", "no"}, m \in Messages}
    \cup {Env("db", h, "ok", <<>>, c) : h \in {"yes", "no"}, c \in CollectionLists}

Envs ==
    {e @@ [url_set |-> u, name_set |-> n] :
        e \in EnvOutcomes, u \in BOOLEAN, n \in BOOLEAN}

-----------------------------------------------------------------------------
(* The handlers, as the framework runs them *)

Ok(body) == [status |-> 200, body |-> body]
\* The framework's answer to a body that fails validation.
Unprocessable(fields) == [status |-> 422, body |-> [invalid |-> fields]]
\* The framework's answer to an exception that leaves a handler.
ServerError == [status |-> 500, body |-> [error |-> "Internal Server Error"]]

NoLog == [f \in TrackedFeatures |-> [calls |-> 0, results |-> {}]]

NoRequest == [kind |-> "none"]
NoResponse == [status |-> 0, body |-> [none |-> TRUE]]

\* The server waits for a request.
Idle == req = NoRequest

Init ==
    /\ req = NoRequest
    /\ resp = NoResponse
    /\ locals = NoLocals
    /\ log = NoLog

\* GET /
ReadRoot ==
    /\ Idle
    /\ req' = [kind |-> "root"]
    /\ resp' = Ok(ReadRootBody)
    /\ locals' = NoLocals
    /\ UNCHANGED log

\* GET /api/hello
Hello ==
    /\ Idle
    /\ req' = [kind |-> "hello"]
    /\ resp' = Ok(HelloBody)
    /\ locals' = NoLocals
    /\ UNCHANGED log

\* GET /api/profile
GetProfile ==
    /\ Idle
    /\ req' = [kind |-> "profile"]
    /\ resp' = Ok(ProfileDocument)
    /\ locals' = NoLocals
    /\ UNCHANGED log

\* POST /api/tools/echo
EchoRequest ==
    \E payload \in Payloads :
        /\ Idle
        /\ req' = [kind |-> "echo", payload |-> payload]
        /\ resp' = Ok(Echo(payload))
        /\ locals' = NoLocals
        /\ UNCHANGED log

\* GET /test
TestRequest ==
    \E env \in Envs :
        LET t == TestDatabase(env)
        IN  /\ Idle
            /\ req' = [kind |-> "test", env |-> env]
            /\ resp' = IF t.raised THEN ServerError ELSE Ok(t.response)
            /\ locals' = NoLocals
            /\ UNCHANGED log

\* POST /api/ml/predict: the body is validated against RiskFeatures, and
\* predict_risk runs only on a body that passes.
HandlePredict(f) ==
    /\ Idle
    /\ req' = [kind |-> "predict", features |-> f]
    /\ IF Valid(f)
       THEN LET r == PredictRisk(f)
            IN  /\ resp' = IF r.raised THEN ServerError ELSE Ok(r.body)
                /\ locals' = r.locals
       ELSE /\ resp' = Unprocessable(Violations(f))
            /\ locals' = NoLocals

PredictRequest ==
    \E f \in RawFeatures : HandlePredict(f) /\ UNCHANGED log

\* The same handler, with the history of the tracked features' results.
TrackedPredictRequest ==
    \E f \in TrackedFeatures :
        /\ log[f].calls < MaxCalls
        /\ HandlePredict(f)
        /\ log' = [log EXCEPT ![f] = [calls |-> @.calls + 1,
                                      results |-> @.results \cup {resp'}]]

\* The response is sent and nothing of the request is kept.
Deliver ==
    /\ ~Idle
    /\ req' = NoRequest
    /\ resp' = NoResponse
    /\ locals' = NoLocals
    /\ UNCHANGED log

Next ==
    \/ ReadRoot
    \/ Hello
    \/ GetProfile
    \/ EchoRequest
    \/ TestRequest
    \/ PredictRequest
    \/ Deliver

Spec == Init /\ [][Next]_vars

\* Any sequence of requests, recording what each tracked predict returned.
HistoryNext ==
    \/ ReadRoot
    \/ Hello
    \/ GetProfile
    \/ EchoRequest
    \/ TestRequest
    \/ TrackedPredictRequest
    \/ Deliver

HistorySpec == Init /\ [][HistoryNext]_vars

-----------------------------------------------------------------------------
(* The categorisation of lines 211-216, applied to any risk_prob *)

\* risk_prob is drawn from a grid of ProbSteps steps over [0, 1], the two
\* values just below the thresholds, and nan.
ProbSteps == 100

RiskProbs ==
    {Num(i * (Unit \div 100)) : i \in 0..ProbSteps}
    \cup {Num(LowThreshold - 10), Num(HighThreshold - 10), NAN}

CatInit ==
    /\ req = NoRequest
    /\ resp = NoResponse
    /\ \E p \in RiskProbs : locals = [ran |-> FALSE, risk_prob |-> p]
    /\ log = NoLog

CatApply ==
    /\ ~locals.ran
    /\ locals' = [ran |-> TRUE, risk_prob |-> locals.risk_prob,
                  category |-> Categorize(locals.risk_prob)]
    /\ UNCHANGED <<req, resp, log>>

CatNext == CatApply

CatSpec == CatInit /\ [][CatNext]_vars

-----------------------------------------------------------------------------
(* Properties *)

Predicting == req.kind = "predict"
Scored == Predicting /\ locals.ran

\* C1: for every RiskFeatures that passes validation, predict_risk returns a
\* result whose risk_probability is a number in the closed interval [0, 1].
C1_ProbabilityInUnitInterval ==
    (Predicting /\ Valid(req.features)) =>
        /\ resp.status = 200
        /\ IsNum(resp.body.risk_probability)
        /\ resp.body.risk_probability.v >= 0
        /\ resp.body.risk_probability.v <= Unit

\* C2: the category is "low" when risk_prob < 0.33, "medium" when
\* 0.33 <= risk_prob < 0.66 and "high" when risk_prob >= 0.66, and every
\* risk_prob gets exactly one of the three.
C2_CategoryThresholds ==
    locals.ran =>
        LET p == locals.risk_prob
            c == locals.category
        IN  /\ c \in {"low", "medium", "high"}
            /\ (IsNum(p) /\ p.v < 330000) => c = "low"
            /\ (IsNum(p) /\ p.v >= 330000 /\ p.v < 660000) => c = "medium"
            /\ (IsNum(p) /\ p.v >= 660000) => c = "high"

\* risk_prob of exactly 0.66 was categorised, as "high".
C2_Witness ==
    /\ locals.ran
    /\ locals.risk_prob = Num(660000)
    /\ locals.category = "high"

\* C3: a predict request with age below 18 or above 100, or with a negative
\* income, debt, num_credit_lines or missed_payments, gets a client error and
\* predict_risk does not run for it; predict_risk runs only on inputs that
\* satisfy all five constraints.
C3_InvalidNeverScored ==
    Predicting =>
        LET f == req.features
            bad == \/ f.age < 18
                   \/ f.age > 100
                   \/ FLt(f.income, Num(0))
                   \/ FLt(f.debt, Num(0))
                   \/ f.num_credit_lines < 0
                   \/ f.missed_payments < 0
        IN  /\ bad => (resp.status = 422 /\ ~locals.ran)
            /\ locals.ran =>
                  /\ f.age >= 18 /\ f.age <= 100
                  /\ FGe(f.income, Num(0)) /\ FGe(f.debt, Num(0))
                  /\ f.num_credit_lines >= 0 /\ f.missed_payments >= 0

\* A request whose only fault is age = 101 was rejected without scoring.
C3_Witness ==
    /\ Predicting
    /\ req.features.age = 101
    /\ Violations(req.features) = {"age"}
    /\ resp.status = 422
    /\ ~locals.ran

\* C4: test_database always returns a response; a missing module, another
\* import error, a None handle, a raising name and a raising listing each
\* show only as the text of the response's database field.
C4_ProbeNeverRaises ==
    req.kind = "test" =>
        LET env == req.env
            cut == Take(env.msg, 50)
        IN  /\ resp.status = 200
            /\ env.import = "ImportError" =>
                  resp.body.database = Text("Database module not found", <<>>)
            /\ env.import = "Exception" =>
                  resp.body.database = Text("Error", cut)
            /\ env.import = "None" =>
                  resp.body.database = Text("Available but not initialized", <<>>)
            /\ (env.import = "db" /\ env.has_name = "raises") =>
                  resp.body.database = Text("Error", cut)
            /\ (env.import = "db" /\ env.has_name # "raises" /\ env.list = "raises") =>
                  resp.body.database = Text("Connected but Error", cut)
            /\ (env.import # "db" \/ env.has_name = "raises" \/ env.list = "raises") =>
                  resp.body.collections = <<>>

\* The probe answered a handle whose name raises with a message longer than
\* the cut.
C4_Witness ==
    /\ req.kind = "test"
    /\ req.env.import = "db"
    /\ req.env.has_name = "raises"
    /\ Len(req.env.msg) > 50
    /\ resp.status = 200
    /\ Len(resp.body.database.detail) = 50

C6_ZeroIncomeSentinel ==
    (Scored /\ req.features.income = Num(0)) =>
        /\ locals.dti = Num(10 * Unit)
        /\ resp.status = 200
        /\ resp.body.features.dti = Num(10 * Unit)

\* A request with income 0 and an infinite debt was scored.
C6_Witness ==
    /\ Scored
    /\ req.features.income = Num(0)
    /\ req.features.debt = INF
    /\ resp.body.features.dti = Num(10 * Unit)

\* C7: payment_penalty is missed_payments * 0.25 capped at 3.0, and exactly
\* 3.0 at 100 missed payments; credit_util_penalty is num_credit_lines * 0.05
\* capped at 1.5, and exactly 1.5 at 1000 credit lines.
C7_PenaltiesCapped ==
    Scored =>
        LET mp == req.features.missed_payments
            ncl == req.features.num_credit_lines
        IN  /\ IsNum(locals.payment_penalty)
            /\ locals.payment_penalty.v <= 3000000
            /\ locals.payment_penalty.v =
                  (IF mp * 250000 < 3000000 THEN mp * 250000 ELSE 3000000)
            /\ mp = 100 => locals.payment_penalty.v = 3000000
            /\ IsNum(locals.credit_util_penalty)
            /\ locals.credit_util_penalty.v <= 1500000
            /\ locals.credit_util_penalty.v =
                  (IF ncl * 50000 < 1500000 THEN ncl * 50000 ELSE 1500000)
            /\ ncl = 1000 => locals.credit_util_penalty.v = 1500000

\* 100 missed payments and 1000 credit lines were scored.
C7_Witness ==
    /\ Scored
    /\ req.features.missed_payments = 100
    /\ req.features.num_credit_lines = 1000
    /\ locals.payment_penalty = Num(3000000)
    /\ locals.credit_util_penalty = Num(1500000)

\* C8: echo returns the payload unchanged, meta.length equal to the number of
\* keys and meta.keys equal to the keys in the payload's order.
C8_EchoFaithful ==
    req.kind = "echo" =>
        LET d == req.payload
            m == resp.body.meta
        IN  /\ resp.status = 200
            /\ resp.body.received = d
            /\ m.length = Cardinality({d[i][1] : i \in 1..Len(d)})
            /\ Len(m.keys) = Len(d)
            /\ \A i \in 1..Len(d) : m.keys[i] = d[i][1]

\* A payload of two keys, the later one first in alphabetical order, was
\* echoed.
C8_Witness ==
    /\ req.kind = "echo"
    /\ req.payload = <<<<"b", 1>>, <<"a", 2>>>>
    /\ resp.body.meta.keys = <<"b", "a">>
    /\ resp.body.meta.length = 2

\* C9: for every valid RiskFeatures linear_score is at least -0.7, risk_prob
\* is above 0.33, and the category is never "low".
C9_NeverLow ==
    Scored =>
        /\ FGe(locals.linear_score, Num(-700000))
        /\ FGt(locals.risk_prob, Num(330000))
        /\ locals.category \in {"medium", "high"}

\* C10 as claimed: whenever the returned risk_probability is a number, the
\* category is "high" exactly when it is >= 0.66 and "low" exactly when it
\* is < 0.33.
C10_CategoryMatchesReturned ==
    (Scored /\ resp.status = 200 /\ IsNum(resp.body.risk_probability)) =>
        LET r == resp.body.risk_probability
            c == resp.body.category
        IN  /\ (c = "high") <=> FGe(r, Num(660000))
            /\ (c = "low") <=> FLt(r, Num(330000))

\* C10 as amended: the category is "low" exactly when the returned
\* risk_probability is < 0.33; a returned value above 0.66 is always "high",
\* "high" never comes with a returned value below 0.66, and a returned value
\* of exactly 0.66 is "high" or, when the unrounded risk_prob lies in
\* [0.65995, 0.66), "medium".
C10_CategoryMatchesUpToRounding ==
    (Scored /\ resp.status = 200) =>
        LET r == resp.body.risk_probability
            c == resp.body.category
            p == locals.risk_prob
        IN  /\ (c = "low") <=> FLt(r, Num(330000))
            /\ FGt(r, Num(660000)) => c = "high"
            /\ c = "high" => ~FLt(r, Num(660000))
            /\ (r = Num(660000) /\ c # "high") =>
                  /\ c = "medium"
                  /\ FGe(p, Num(659950))
                  /\ FLt(p, Num(660000))

\* A response carries risk_probability 0.66 with the category "medium".
C10_Witness ==
    /\ Scored
    /\ resp.status = 200
    /\ resp.body.risk_probability = Num(660000)
    /\ resp.body.category = "medium"

====
